---- MODULE Spec2Model ----
(***************************************************************************)
(* Model of the BC3 -> JSON tree converter (parser.py) and of its stdin /  *)
(* stdout wrapper (parser_wrapper.py).                                     *)
(*                                                                         *)
(* Spec      : one run of parser_wrapper.main(): stdin is read, the core   *)
(*             bc3_to_json() detects the root, builds the tree with the    *)
(*             recursive build_node() (modelled as an explicit call stack),*)
(*             prunes it, renumbers it, and the wrapper prints the answer. *)
(*             The decoded lookup tables (decomp, concepts, texts,         *)
(*             quantities) are the inputs, drawn from bounded sets.        *)
(* FairSpec  : Spec with weak fairness of the (sequential) program step.   *)
(* SpecM     : the loop of parse_measurements() over ~M records.           *)
(***************************************************************************)
EXTENDS Integers, Sequences, FiniteSets, TLC

VARIABLES
    stdin,        \* bytes read by the wrapper: "empty" or "content"
    decomp,       \* parse_decompositions(): parent -> <<  <<child, factor>> ... >>
    concepts,     \* parse_concepts(): code -> [codigo, unidad, resumen, precio]
    texts,        \* parse_texts(): code -> long text
    quantities,   \* parse_measurements(): code -> total
    pc,           \* position of the run
    visited,      \* the set `visited` shared by every build_node() call
    stack,        \* call stack of build_node(): one frame per active call
    tree,         \* the tree held by bc3_to_json() (NoNode before it exists)
    exc,          \* message of the exception in flight (None when none)
    stdout,       \* response objects printed by the wrapper
    exit_status,  \* <<status>> once the process has exited, <<>> before
    rec,          \* parse_measurements(): record of the current iteration (NoRec between)
    m_quantities, \* parse_measurements(): its local dict `quantities`
    m_count       \* parse_measurements(): records consumed so far

vars == <<stdin, decomp, concepts, texts, quantities, pc, visited, stack, tree,
          exc, stdout, exit_status, rec, m_quantities, m_count>>

(***************************************************************************)
(* Bounds of the model.                                                    *)
(***************************************************************************)
MaxEdges == 3          \* total number of (child, factor) pairs in decomp
RecursionLimit == 6    \* depth at which the interpreter raises RecursionError
MaxHeaderLen == 3      \* characters in the header field of a ~M record
MaxRecs == 2           \* ~M records consumed by one parse_measurements() run

(***************************************************************************)
(* Values.                                                                 *)
(***************************************************************************)
None == "None"
EmptyMap == <<>>       \* the empty dict; also the `{}` returned by build_node
NoNode == EmptyMap
NoRec == EmptyMap

Codes == {"OBRA", "CAP1", "CAP2", "IT1"}
Factors == {1}

\* naturaleza values of determine_naturaleza
Root == 0
Chapter == 1
Subchapter == 2
LineItem == 3

\* dict.get(key, default)
Get(d, k, default) == IF k \in DOMAIN d THEN d[k] ELSE default

\* d[k] = v
Put(d, k, v) == [x \in (DOMAIN d) \cup {k} |-> IF x = k THEN v ELSE d[x]]

Last(s) == s[Len(s)]

(***************************************************************************)
(* f"{idx:02d}"                                                            *)
(***************************************************************************)
Digits == <<"0", "1", "2", "3", "4", "5", "6", "7", "8", "9">>

RECURSIVE Dec(_)
Dec(n) == IF n < 10 THEN Digits[n + 1] ELSE Dec(n \div 10) \o Digits[(n % 10) + 1]

Fmt02d(n) == IF n < 10 THEN "0" \o Dec(n) ELSE Dec(n)

(***************************************************************************)
(* determine_naturaleza(depth, has_children)                               *)
(***************************************************************************)
determine_naturaleza(depth, has_children) ==
    IF depth = 0 THEN Root
    ELSE IF ~has_children THEN LineItem
    ELSE IF depth = 1 THEN Chapter
    ELSE Subchapter

(***************************************************************************)
(* build_node(): the parts of one call.                                    *)
(***************************************************************************)
\* faulty variant: the code is not recorded
visited_add_nothing(vis, code) == vis

\* visited.add(code)
visited_add(vis, code) == vis \cup {code}

\* the CANTIDAD rules
cantidad_rule(code, depth, children_info) ==
    IF depth = 0 THEN 1
    ELSE IF depth = 1 THEN 1
    ELSE IF depth >= 2 /\ children_info # <<>> THEN 1
    ELSE IF code \in DOMAIN quantities THEN quantities[code]
    ELSE 0

\* faulty variant: every level is prefixed with the parent's code
child_cd_always_dotted(depth, codigo_decimal, idx) ==
    codigo_decimal \o "." \o Fmt02d(idx)

\* position code given to the idx-th child (build_node and _renumber_children
\* use the same rule)
child_cd(depth, codigo_decimal, idx) ==
    IF depth = 0 THEN Fmt02d(idx)
    ELSE codigo_decimal \o "." \o Fmt02d(idx)

\* the locals of a build_node() call, after its prologue and before its loop
NewFrame(code, depth, codigo_decimal) ==
    LET concept == Get(concepts, code, EmptyMap)
        children_info == Get(decomp, code, <<>>)
        cantidad == cantidad_rule(code, depth, children_info)
        precio == Get(concept, "precio", 0)
    IN  [code |-> code,
         depth |-> depth,
         codigo_decimal |-> codigo_decimal,
         unidad |-> Get(concept, "unidad", None),
         resumen |-> Get(concept, "resumen", ""),
         descripcion_larga |-> Get(texts, code, None),
         precio |-> precio,
         children_info |-> children_info,
         cantidad |-> cantidad,
         importe |-> cantidad * precio,
         idx |-> 1,
         hijos |-> <<>>]

\* faulty variant: only the children actually built count
has_children_built_only(hijos, children_info) == hijos # <<>>

\* bool(hijos or children_info)
has_children(hijos, children_info) == hijos # <<>> \/ children_info # <<>>

\* the dict returned by build_node()
NodeOf(f) ==
    [codigo_decimal |-> f.codigo_decimal,
     codigo |-> f.code,
     naturaleza |-> determine_naturaleza(f.depth, has_children(f.hijos, f.children_info)),
     unidad |-> f.unidad,
     resumen |-> f.resumen,
     descripcion_larga |-> f.descripcion_larga,
     cantidad |-> f.cantidad,
     precio |-> f.precio,
     margen |-> None,
     importe |-> f.importe,
     interno |-> TRUE,
     grupo |-> None,
     proveedor |-> None,
     hijos |-> f.hijos]

(***************************************************************************)
(* detect_root_code()                                                      *)
(***************************************************************************)
\* faulty variant: the children are not subtracted
roots_all_parents(d) == DOMAIN d

\* roots = parents - children
roots(d) ==
    LET parents == DOMAIN d
        children == UNION {{d[p][i][1] : i \in 1..Len(d[p])} : p \in DOMAIN d}
    IN  parents \ children

NoRootMessage == "No se ha encontrado ningun nodo raiz en las descomposiciones (~D)."

(***************************************************************************)
(* Pruning.                                                                *)
(***************************************************************************)
\* faulty variant: >= written for !=
tiene_cantidad_ge(node) == node.cantidad >= 0

\* tiene_cantidad = cantidad_val != 0.0
tiene_cantidad(node) == node.cantidad # 0

\* faulty variant: rejected children are removed from the list being iterated, so the
\* element that follows a removed one is never examined
RECURSIVE RemoveWhileIterating(_, _)
RemoveWhileIterating(rs, i) ==
    IF i > Len(rs) THEN [k \in 1..Len(rs) |-> rs[k].node]
    ELSE IF rs[i].keep THEN RemoveWhileIterating(rs, i + 1)
    ELSE RemoveWhileIterating(SubSeq(rs, 1, i - 1) \o SubSeq(rs, i + 1, Len(rs)), i + 1)

hijos_filtrados_in_place(rs) == RemoveWhileIterating(rs, 1)

RECURSIVE FilterLoop(_, _, _)
FilterLoop(rs, i, acc) ==
    IF i > Len(rs) THEN acc
    ELSE FilterLoop(rs, i + 1, IF rs[i].keep THEN Append(acc, rs[i].node) ELSE acc)

\* the loop `for hijo in hijos: if _prune_node(hijo): hijos_filtrados.append(hijo)`
\* rs[i] is the result of _prune_node on the i-th child
hijos_filtrados(rs) == FilterLoop(rs, 1, <<>>)

\* _prune_node(node): [keep |-> the returned flag, node |-> node after the call]
RECURSIVE _prune_node(_)
_prune_node(node) ==
    LET rs == [i \in 1..Len(node.hijos) |-> _prune_node(node.hijos[i])]
        filtrados == hijos_filtrados(rs)
    IN  [keep |-> tiene_cantidad(node) \/ filtrados # <<>>,
         node |-> [node EXCEPT !.hijos = filtrados]]

prune_tree(root) ==
    LET rs == [i \in 1..Len(root.hijos) |-> _prune_node(root.hijos[i])]
    IN  [root EXCEPT !.hijos = hijos_filtrados(rs)]

(***************************************************************************)
(* Renumbering.                                                            *)
(***************************************************************************)
RECURSIVE _renumber_children(_, _)
_renumber_children(node, depth) ==
    [node EXCEPT !.hijos =
        [idx \in 1..Len(node.hijos) |->
            _renumber_children(
                [node.hijos[idx] EXCEPT
                    !.codigo_decimal = child_cd(depth, node.codigo_decimal, idx)],
                depth + 1)]]

renumber_tree(root) ==
    _renumber_children([root EXCEPT !.codigo_decimal = "0"], 0)

(***************************************************************************)
(* Inputs.                                                                 *)
(***************************************************************************)
Pairs == Codes \X Factors

\* sequences over S of length 0..n
RECURSIVE SeqsUpTo(_, _)
SeqsUpTo(S, n) ==
    IF n = 0 THEN {<<>>}
    ELSE LET shorter == SeqsUpTo(S, n - 1)
         IN  shorter \cup {Append(s, x) : s \in {t \in shorter : Len(t) = n - 1}, x \in S}

\* the decomposition maps with keys in S and at most n pairs in all; a parent
\* with no valid child has no entry at all
RECURSIVE DecompsOver(_, _)
DecompsOver(S, n) ==
    IF S = {} THEN {EmptyMap}
    ELSE LET p == CHOOSE x \in S : TRUE
         IN  UNION {{IF chs = <<>> THEN d ELSE Put(d, p, chs) :
                        d \in DecompsOver(S \ {p}, n - Len(chs))} :
                    chs \in SeqsUpTo(Pairs, n)}

DecompMaps == DecompsOver(Codes, MaxEdges)

ConceptsIn ==
    [c \in {"IT1"} |-> [codigo |-> "IT1", unidad |-> "m2", resumen |-> "Partida", precio |-> 10]]

\* measurement totals: none, a zero total, or 5 for the measured codes
QuantityMaps ==
    {[c \in S |-> 5] : S \in SUBSET {"IT1", "CAP2"}} \cup {[c \in {"IT1"} |-> 0]}

Idle ==
    /\ pc = "start"
    /\ visited = {}
    /\ stack = <<>>
    /\ tree = NoNode
    /\ exc = None
    /\ stdout = <<>>
    /\ exit_status = <<>>

NoMeasurementRun ==
    /\ rec = NoRec
    /\ m_quantities = EmptyMap
    /\ m_count = 0

Init ==
    /\ \/ /\ stdin = "empty"
          /\ decomp = EmptyMap
          /\ concepts = EmptyMap
          /\ quantities = EmptyMap
       \/ /\ stdin = "content"
          /\ decomp \in DecompMaps
          /\ concepts = ConceptsIn
          /\ quantities \in QuantityMaps
    /\ texts = EmptyMap
    /\ Idle
    /\ NoMeasurementRun

inputs == <<stdin, decomp, concepts, texts, quantities>>
mvars == <<rec, m_quantities, m_count>>

(***************************************************************************)
(* parser_wrapper.main() and bc3_to_json(), step by step.                  *)
(***************************************************************************)
ErrorResponse(msg) == [success |-> FALSE, error |-> msg, data |-> None]
SuccessResponse(t) == [success |-> TRUE, error |-> None, data |-> t]

\* faulty variant: the error is printed but the process does not exit
main_no_content_falls_through ==
    /\ pc = "start"
    /\ stdin = "empty"
    /\ stdout' = Append(stdout, ErrorResponse("No BC3 content received from stdin"))
    /\ pc' = "bc3_to_json"
    /\ UNCHANGED <<inputs, visited, stack, tree, exc, exit_status, mvars>>

\* if not bc3_content: print(error_result); sys.exit(1)
main_no_content ==
    /\ pc = "start"
    /\ stdin = "empty"
    /\ stdout' = Append(stdout, ErrorResponse("No BC3 content received from stdin"))
    /\ exit_status' = <<1>>
    /\ pc' = "exited"
    /\ UNCHANGED <<inputs, visited, stack, tree, exc, mvars>>

\* the content goes to a temporary file and bc3_to_json(tmp_path) is called
main_call_bc3_to_json ==
    /\ pc = "start"
    /\ stdin = "content"
    /\ pc' = "bc3_to_json"
    /\ UNCHANGED <<inputs, visited, stack, tree, exc, stdout, exit_status, mvars>>

\* detect_root_code raises RuntimeError
detect_root_code_raise ==
    /\ pc = "bc3_to_json"
    /\ roots(decomp) = {}
    /\ exc' = NoRootMessage
    /\ pc' = "raised"
    /\ UNCHANGED <<inputs, visited, stack, tree, stdout, exit_status, mvars>>

\* detect_root_code returns next(iter(roots)); build_node(root_code, 0, "0", ..., set())
\* is entered
detect_root_code_return ==
    /\ pc = "bc3_to_json"
    /\ \E root_code \in roots(decomp) :
        /\ visited' = visited_add({}, root_code)
        /\ stack' = <<NewFrame(root_code, 0, "0")>>
    /\ pc' = "build"
    /\ UNCHANGED <<inputs, tree, exc, stdout, exit_status, mvars>>

top == stack[Len(stack)]

\* one iteration of `for idx, (child_code, factor) in enumerate(children_info, 1)`:
\* the recursive call is made; it returns {} at once when the code is in visited
build_node_call ==
    /\ pc = "build"
    /\ top.idx <= Len(top.children_info)
    /\ LET child_code == top.children_info[top.idx][1]
           cd == child_cd(top.depth, top.codigo_decimal, top.idx)
       IN  IF Len(stack) >= RecursionLimit
           THEN /\ exc' = "maximum recursion depth exceeded"
                /\ pc' = "raised"
                /\ UNCHANGED <<visited, stack>>
           ELSE IF child_code \in visited
           THEN /\ stack' = [stack EXCEPT ![Len(stack)].idx = @ + 1]
                /\ UNCHANGED <<visited, exc, pc>>
           ELSE /\ visited' = visited_add(visited, child_code)
                /\ stack' = Append(stack, NewFrame(child_code, top.depth + 1, cd))
                /\ UNCHANGED <<exc, pc>>
    /\ UNCHANGED <<inputs, tree, stdout, exit_status, mvars>>

\* the loop is over: the node is returned to the caller, which appends it
build_node_return ==
    /\ pc = "build"
    /\ top.idx > Len(top.children_info)
    /\ IF Len(stack) = 1
       THEN /\ tree' = NodeOf(top)
            /\ stack' = <<>>
            /\ pc' = "built"
       ELSE /\ stack' = [SubSeq(stack, 1, Len(stack) - 1) EXCEPT
                            ![Len(stack) - 1].hijos = Append(@, NodeOf(top)),
                            ![Len(stack) - 1].idx = @ + 1]
            /\ UNCHANGED <<tree, pc>>
    /\ UNCHANGED <<inputs, visited, exc, stdout, exit_status, mvars>>

\* tree = prune_tree(tree)
bc3_to_json_prune ==
    /\ pc = "built"
    /\ tree' = prune_tree(tree)
    /\ pc' = "pruned"
    /\ UNCHANGED <<inputs, visited, stack, exc, stdout, exit_status, mvars>>

\* tree = renumber_tree(tree); return tree
bc3_to_json_renumber ==
    /\ pc = "pruned"
    /\ tree' = renumber_tree(tree)
    /\ pc' = "returned"
    /\ UNCHANGED <<inputs, visited, stack, exc, stdout, exit_status, mvars>>

\* print(json.dumps(result)); the process ends with status 0
main_success ==
    /\ pc = "returned"
    /\ stdout' = Append(stdout, SuccessResponse(tree))
    /\ exit_status' = <<0>>
    /\ pc' = "exited"
    /\ UNCHANGED <<inputs, visited, stack, tree, exc, mvars>>

\* except Exception as e: print(error_result); sys.exit(1)
main_except ==
    /\ pc = "raised"
    /\ stdout' = Append(stdout, ErrorResponse(exc))
    /\ exit_status' = <<1>>
    /\ pc' = "exited"
    /\ UNCHANGED <<inputs, visited, stack, tree, exc, mvars>>

Next ==
    \/ main_no_content
    \/ main_call_bc3_to_json
    \/ detect_root_code_raise
    \/ detect_root_code_return
    \/ build_node_call
    \/ build_node_return
    \/ bc3_to_json_prune
    \/ bc3_to_json_renumber
    \/ main_success
    \/ main_except

Spec == Init /\ [][Next]_vars

FairSpec == Spec /\ WF_vars(Next)

(***************************************************************************)
(* parse_measurements(): the loop over the records.                        *)
(*                                                                         *)
(* A record is [tag, header, tail]: rec.split("|") is                      *)
(* <<tag, header>> \o tail. The header is a sequence of characters, the    *)
(* other fields are opaque strings.                                        *)
(***************************************************************************)
Backslash == "\\"
Chars == {"A", "B", Backslash}

\* header.split("\\")
RECURSIVE SplitFrom(_, _, _, _)
SplitFrom(s, i, cur, acc) ==
    IF i > Len(s) THEN Append(acc, cur)
    ELSE IF s[i] = Backslash THEN SplitFrom(s, i + 1, <<>>, Append(acc, cur))
    ELSE SplitFrom(s, i + 1, Append(cur, s[i]), acc)

split(header) == SplitFrom(header, 1, <<>>, <<>>)

\* faulty variant: the last segment is taken as it is
active_code_last_only(header) == Last(split(header))

\* code = parts[-1] or (parts[-2] if len(parts) > 1 else header)
active_code(header) ==
    LET parts == split(header)
    IN  IF Last(parts) # <<>> THEN Last(parts)
        ELSE IF Len(parts) > 1 THEN parts[Len(parts) - 1]
        ELSE header

\* float(total_str): the strings it accepts, with their values
FloatOf == [s \in {"5", "2"} |-> IF s = "5" THEN 5 ELSE 2]
TotalStrs == {"5", "2", "x", ""}

Headers == SeqsUpTo(Chars, MaxHeaderLen)
Tails == {<<>>} \cup {<<t>> : t \in TotalStrs} \cup {<<"1", t>> : t \in {"5", "x"}}

MRecords ==
    {[tag |-> "~M", header |-> h, tail |-> t] : h \in Headers, t \in Tails}
    \cup {[tag |-> "~C", header |-> <<"A">>, tail |-> <<"m2", "5">>]}

\* len(fields) >= 3 and float(fields[-1]) does not raise
Accepted(r) ==
    /\ r.tag = "~M"
    /\ 2 + Len(r.tail) >= 3
    /\ Last(r.tail) \in DOMAIN FloatOf

InitM ==
    /\ stdin = "content"
    /\ decomp = EmptyMap
    /\ concepts = EmptyMap
    /\ texts = EmptyMap
    /\ quantities = EmptyMap
    /\ pc = "parse_measurements"
    /\ visited = {}
    /\ stack = <<>>
    /\ tree = NoNode
    /\ exc = None
    /\ stdout = <<>>
    /\ exit_status = <<>>
    /\ NoMeasurementRun

pipeline == <<inputs, pc, visited, stack, tree, exc, stdout, exit_status>>

\* for rec in records: the next record of the list
parse_measurements_next ==
    /\ pc = "parse_measurements"
    /\ rec = NoRec
    /\ m_count < MaxRecs
    /\ rec' \in MRecords
    /\ m_count' = m_count + 1
    /\ UNCHANGED <<m_quantities, pipeline>>

\* continue: another kind of record, fewer than 3 fields, or an unparseable total
parse_measurements_continue ==
    /\ pc = "parse_measurements"
    /\ rec # NoRec
    /\ ~Accepted(rec)
    /\ rec' = NoRec
    /\ UNCHANGED <<m_quantities, m_count, pipeline>>

\* quantities[code] = quantities.get(code, 0.0) + total
parse_measurements_add ==
    /\ pc = "parse_measurements"
    /\ rec # NoRec
    /\ Accepted(rec)
    /\ LET code == active_code(rec.header)
           total == FloatOf[Last(rec.tail)]
       IN  m_quantities' = Put(m_quantities, code, Get(m_quantities, code, 0) + total)
    /\ rec' = NoRec
    /\ UNCHANGED <<m_count, pipeline>>

NextM ==
    \/ parse_measurements_next
    \/ parse_measurements_continue
    \/ parse_measurements_add

SpecM == InitM /\ [][NextM]_vars

(***************************************************************************)
(* Properties.                                                             *)
(***************************************************************************)
RECURSIVE CodesOf(_)
CodesOf(node) ==
    {node.codigo} \cup UNION {CodesOf(node.hijos[i]) : i \in 1..Len(node.hijos)}

\* every node of a tree with its depth, its 1-based place among its siblings
\* and its parent's position code
RECURSIVE Places(_, _, _, _)
Places(node, depth, k, parent_cd) ==
    {[node |-> node, depth |-> depth, k |-> k, parent_cd |-> parent_cd]}
    \cup UNION {Places(node.hijos[i], depth + 1, i, node.codigo_decimal) :
                   i \in 1..Len(node.hijos)}

AllPlaces(t) == Places(t, 0, 1, "")

ChildCodes(code) ==
    IF code \in DOMAIN decomp
    THEN {decomp[code][i][1] : i \in 1..Len(decomp[code])}
    ELSE {}

\* codes for which build_node made a node and that the tree no longer holds
Removed == visited \ CodesOf(tree)

ScenarioDecomp ==
    [OBRA |-> << <<"CAP1", 1>>, <<"CAP2", 1>> >>, CAP1 |-> << <<"IT1", 1>> >>]

ScenarioQuantities == [IT1 |-> 5]

InScenario ==
    /\ decomp = ScenarioDecomp
    /\ quantities = ScenarioQuantities
    /\ concepts = ConceptsIn

\* C1: in the scenario OBRA -> [CAP1, CAP2], CAP1 -> [IT1], total IT1 = 5,
\* price IT1 = 10, the tree returned by bc3_to_json is Root "0" (quantity 1)
\* with the single child CAP1 "01" (Chapter, quantity 1) whose single child is
\* IT1 "01.01" (LineItem, quantity 5, amount 50); CAP2 is absent.
C1_ScenarioTree ==
    (pc = "returned" /\ InScenario) =>
        /\ tree.codigo_decimal = "0"
        /\ tree.naturaleza = Root
        /\ tree.cantidad = 1
        /\ Len(tree.hijos) = 1
        /\ LET cap1 == tree.hijos[1]
           IN  /\ cap1.codigo = "CAP1"
               /\ cap1.codigo_decimal = "01"
               /\ cap1.naturaleza = Chapter
               /\ cap1.cantidad = 1
               /\ Len(cap1.hijos) = 1
               /\ LET it1 == cap1.hijos[1]
                  IN  /\ it1.codigo = "IT1"
                      /\ it1.codigo_decimal = "01.01"
                      /\ it1.naturaleza = LineItem
                      /\ it1.cantidad = 5
                      /\ it1.importe = 50
                      /\ it1.hijos = <<>>
        /\ "CAP2" \notin CodesOf(tree)

\* the codes of the calls that are active: the ancestor path of the next child
PathCodes == {stack[i].code : i \in 1..Len(stack)}

CallPending == pc = "build" /\ top.idx <= Len(top.children_info)

PendingChild == top.children_info[top.idx][1]

\* the pending call returns "no node": the caller moves on to its next child
\* and no call becomes active
ReturnsNoNode == pc' = "build" /\ Len(stack') = Len(stack)

\* C2: build_node returns "no node" for a child code if and only if that code
\* is on the current ancestor path (root down to the parent being expanded).
C2_GuardIsPerAncestorPath ==
    [][CallPending => (ReturnsNoNode <=> PendingChild \in PathCodes)]_vars

RECURSIVE Survives(_)
Survives(n) ==
    n.cantidad # 0 \/ \E i \in 1..Len(n.hijos) : Survives(n.hijos[i])

\* the elements of a set of numbers, ascending
Ascending(S) ==
    [k \in 1..Cardinality(S) |-> CHOOSE i \in S : Cardinality({j \in S : j < i}) = k - 1]

\* the node with, at every level, exactly the surviving children, in order
RECURSIVE Retained(_)
Retained(n) ==
    LET kept == Ascending({i \in 1..Len(n.hijos) : Survives(n.hijos[i])})
    IN  [n EXCEPT !.hijos = [k \in 1..Len(kept) |-> Retained(n.hijos[kept[k]])]]

RootCandidates ==
    {p \in DOMAIN decomp : \A q \in DOMAIN decomp : p \notin ChildCodes(q)}

AfterDetect == pc \in {"build", "built", "pruned", "returned", "raised", "exited"}

\* C4: detect_root_code returns a member of parents - children (so the single
\* one when there is exactly one); when that set is empty it raises the
\* structural error and no tree is built.
C4_RootResolver ==
    /\ pc = "build" => stack[1].code \in RootCandidates
    /\ pc \in {"built", "pruned", "returned"} => tree.codigo \in RootCandidates
    /\ (stdin = "content" /\ AfterDetect /\ RootCandidates = {}) =>
          /\ pc \in {"raised", "exited"}
          /\ exc = NoRootMessage
          /\ tree = NoNode
          /\ visited = {}
    /\ (AfterDetect /\ RootCandidates # {}) => exc # NoRootMessage

\* every parent is also a child (a cycle through the top): the error is raised
C4_Witness ==
    /\ pc = "raised"
    /\ DOMAIN decomp # {}
    /\ exc = NoRootMessage

\* C5: the recursive build from the root terminates and returns a tree, also
\* on self-loops and longer cycles; a child code that is on the current
\* recursion path yields no node, and the build raises nothing.
C5_BuildTerminates ==
    /\ (pc = "build") ~> (pc = "built")
    /\ [][pc = "build" => pc' \in {"build", "built"}]_vars
    /\ [][(CallPending /\ PendingChild \in PathCodes) => ReturnsNoNode]_vars

\* a tree was built from a decomposition with a cycle among the built codes
C5_Witness ==
    /\ pc = "built"
    /\ \E a, b \in visited : b \in ChildCodes(a) /\ a \in ChildCodes(b)
    /\ \E pl \in AllPlaces(tree) :
          Len(pl.node.hijos) < Cardinality(ChildCodes(pl.node.codigo))

TwoDigits == <<"01", "02", "03", "04", "05", "06", "07", "08", "09">>

\* C6: in the tree returned by bc3_to_json the root's position code is "0",
\* the k-th child of the root has the code k padded to two digits, and the
\* k-th child of any other node has its parent's code + "." + k padded to two
\* digits: the indices are contiguous, with no gap left by removed children.
C6_Renumbered ==
    pc = "returned" =>
        \A pl \in AllPlaces(tree) :
            pl.node.codigo_decimal =
                IF pl.depth = 0 THEN "0"
                ELSE IF pl.depth = 1 THEN TwoDigits[pl.k]
                ELSE pl.parent_cd \o "." \o TwoDigits[pl.k]

\* a later sibling took the place of a removed or skipped first child, two
\* levels below the root
C6_Witness ==
    /\ pc = "returned"
    /\ \E pl \in AllPlaces(tree) :
          /\ pl.depth >= 1
          /\ pl.node.hijos # <<>>
          /\ pl.node.hijos[1].codigo # decomp[pl.node.codigo][1][1]

\* C7: pruning a pruned tree again changes nothing.
C7_PruneIdempotent ==
    pc = "pruned" => prune_tree(tree) = tree

\* the first pruning removed something
C7_Witness ==
    /\ pc = "pruned"
    /\ Removed # {}
    /\ \E pl \in AllPlaces(tree) : pl.depth >= 2

\* C8: in the returned tree only the node at depth 0 is Root; a deeper node
\* whose code has a decomposition entry is Chapter at depth 1 and Subchapter
\* below, also when it has no children left; a deeper node whose code has no
\* entry is LineItem and has no children.
C8_Nature ==
    pc = "returned" =>
        \A pl \in AllPlaces(tree) :
            IF pl.depth = 0 THEN pl.node.naturaleza = Root
            ELSE IF pl.node.codigo \in DOMAIN decomp
            THEN pl.node.naturaleza = (IF pl.depth = 1 THEN Chapter ELSE Subchapter)
            ELSE pl.node.naturaleza = LineItem /\ pl.node.hijos = <<>>

\* a Subchapter all of whose decomposition children were skipped or pruned,
\* next to a LineItem
C8_Witness ==
    /\ pc = "returned"
    /\ \E pl \in AllPlaces(tree) :
          /\ pl.depth >= 1
          /\ pl.node.codigo \in DOMAIN decomp
          /\ pl.node.hijos = <<>>
    /\ \E pl \in AllPlaces(tree) : pl.node.naturaleza = LineItem

\* C9: a run prints exactly one response. Without input the conversion is
\* never entered and the response is a failure with exit status 1; when the
\* conversion raises, the response is a failure carrying the message, with
\* exit status 1; only when it returns is the response a success carrying
\* the tree, with exit status 0.
C9_Envelope ==
    /\ pc # "exited" => stdout = <<>> /\ exit_status = <<>>
    /\ stdin = "empty" => pc \in {"start", "exited"} /\ tree = NoNode
    /\ pc = "exited" =>
          /\ Len(stdout) = 1
          /\ LET r == stdout[1]
             IN  IF stdin = "content" /\ exc = None
                 THEN /\ r.success
                      /\ r.error = None
                      /\ tree # NoNode
                      /\ r.data = tree
                      /\ exit_status = <<0>>
                 ELSE /\ ~r.success
                      /\ r.error # None
                      /\ stdin = "content" => r.error = exc
                      /\ r.data = None
                      /\ exit_status = <<1>>

\* the run without input has exited
C9_Witness ==
    /\ pc = "exited"
    /\ stdin = "empty"
    /\ Len(stdout) = 1

\* number of empty segments at the end of parts
RECURSIVE TrailingEmpty(_)
TrailingEmpty(parts) ==
    IF parts = <<>> \/ Last(parts) # <<>> THEN 0
    ELSE 1 + TrailingEmpty(SubSeq(parts, 1, Len(parts) - 1))

HasBackslash(header) == \E i \in 1..Len(header) : header[i] = Backslash

\* the total of the record being processed goes to key k and nowhere else
AccumulatedUnder(k) ==
    /\ DOMAIN m_quantities' = DOMAIN m_quantities \cup {k}
    /\ m_quantities'[k] = Get(m_quantities, k, 0) + FloatOf[Last(rec.tail)]
    /\ \A x \in DOMAIN m_quantities : x # k => m_quantities'[x] = m_quantities[x]

Processing == pc = "parse_measurements" /\ rec # NoRec /\ Accepted(rec)

\* C10 as stated: the total of an accepted ~M record is accumulated under the
\* last non-empty segment of the header split on the backslash, whatever the
\* number of trailing empty segments, and under the whole header when it has
\* no backslash.
C10_LastNonEmptySegment ==
    [][Processing =>
          LET parts == split(rec.header)
              n == Len(parts) - TrailingEmpty(parts)
          IN  IF ~HasBackslash(rec.header) THEN AccumulatedUnder(rec.header)
              ELSE n >= 1 => AccumulatedUnder(parts[n])]_vars

\* C10 amended: the key is the last segment when it is not empty, else the
\* segment before it (the last non-empty segment when exactly one trailing
\* segment is empty, the empty string when two or more are), and the whole
\* header when it has no backslash.
C10_LastOrSecondToLast ==
    [][Processing =>
          LET parts == split(rec.header)
              t == TrailingEmpty(parts)
          IN  IF ~HasBackslash(rec.header) THEN AccumulatedUnder(rec.header)
              ELSE IF t <= 1 THEN AccumulatedUnder(parts[Len(parts) - t])
              ELSE AccumulatedUnder(<<>>)]_vars

\* a record whose header ends in one backslash is being added to totals that
\* an earlier record has already fed
C10_Witness ==
    /\ Processing
    /\ HasBackslash(rec.header)
    /\ TrailingEmpty(split(rec.header)) = 1
    /\ Len(split(rec.header)) >= 3
    /\ active_code(rec.header) \in DOMAIN m_quantities

====
